---- MODULE Spec2Model ----
(***************************************************************************)
(* The command-line orchestration of speech_enhancer.py: the preprocess,   *)
(* train and predict commands, the files they persist (normalization       *)
(* cache, preprocessed blob, model and weights caches), and the prediction *)
(* output directory tree.  One command runs at a time.  preprocess and     *)
(* train are one step each; predict is one step up to its loops, then one  *)
(* step per speaker and one per sample.  The collaborators of              *)
(* data_processor, dataset and network are modelled by what the            *)
(* specification says of them.                                             *)
(*                                                                         *)
(* An optional value (Python None or a value) is a sequence of length 0 or *)
(* 1: None is <<>>, a present value x is <<x>>.                            *)
(***************************************************************************)
EXTENDS Integers, Sequences, FiniteSets, TLC

\* ---------------------------------------------------------------- bounds
MaxRuns == 4
MaxClock == 1

\* ------------------------------------------------------- program constants
MaxFiles == 5

None == <<>>
Some(x) == <<x>>

Min(a, b) == IF a <= b THEN a ELSE b
Range(s) == {s[i] : i \in 1..Len(s)}
InjSeqs(S, n) == {s \in [1..n -> S] : \A i, j \in 1..n : i # j => s[i] # s[j]}

\* ----------------------------------------------- dataset (collaborators)
\* AudioVisualDataset(dataset_dir).list_speakers()
DatasetSpeakers == <<"s1", "s2">>

\* The speech+video clips of the dataset, by speaker; name is the basename
\* of the video file without its extension.
Clips ==
  { [speaker |-> "s1", name |-> "a"],
    [speaker |-> "s1", name |-> "a_b"],
    [speaker |-> "s2", name |-> "c"] }

\* The noise files of noise_dirs, by basename without extension.
Noises == {"n", "b_n"}

SpeechLevel(clip) ==
  CASE clip = "a" -> 1 [] clip = "a_b" -> 2 [] OTHER -> 3

NoiseLevel(noise) == IF noise = "n" THEN 1 ELSE 2

\* The speaker lists and ignored-speaker lists given on the command line.
SpeakerArgs == {None, Some(<<"s1", "s1">>)}
IgnoredArgs == {None, Some(<<"s2">>)}

\* The clips whose speech or video file may turn out unreadable when a batch
\* function of preprocess reads it.
Unreadable == {"c"}

\* ------------------------------------------------------- list_speakers
\* list.remove(x): drops the first occurrence of x, ValueError when absent.
ListRemove(s, x) ==
  IF \E i \in 1..Len(s) : s[i] = x
  THEN LET i == CHOOSE k \in 1..Len(s) :
                  s[k] = x /\ \A j \in 1..(k - 1) : s[j] # x
       IN  [ok |-> TRUE, val |-> SubSeq(s, 1, i - 1) \o SubSeq(s, i + 1, Len(s))]
  ELSE [ok |-> FALSE, val |-> <<>>]

RECURSIVE RemoveEach(_, _)
RemoveEach(s, ignored) ==
  IF ignored = <<>>
  THEN [ok |-> TRUE, val |-> s]
  ELSE LET r == ListRemove(s, Head(ignored))
       IN  IF r.ok THEN RemoveEach(r.val, Tail(ignored)) ELSE r

\* A list_speakers that leaves the ignored speakers in the list.
list_speakers_keeps_ignored(a) ==
  [ok |-> TRUE, val |-> IF a.speakers = None THEN DatasetSpeakers ELSE a.speakers[1]]

\* list_speakers(args): ok = FALSE stands for the ValueError of list.remove.
list_speakers(a) ==
  LET ids == IF a.speakers = None THEN DatasetSpeakers ELSE a.speakers[1]
  IN  IF a.ignored_speakers = None
      THEN [ok |-> TRUE, val |-> ids]
      ELSE RemoveEach(ids, a.ignored_speakers[1])

\* ------------------------------------------------------------ list_data
\* subset(..., max_files, shuffle=True): the files in some order, at most
\* max_files of them.
Subset(S, max_files) ==
  InjSeqs(S, IF max_files = None THEN Cardinality(S)
             ELSE Min(Cardinality(S), max_files[1]))

\* list_data(dataset_dir, speaker_ids, noise_dirs, max_files): the possible
\* results, each a sequence of samples (speech/video clip, noise file).
list_data(speaker_ids, max_files) ==
  LET speech == Subset({c \in Clips : c.speaker \in Range(speaker_ids)}, max_files)
      noise  == Subset(Noises, max_files)
  IN  { [i \in 1..Min(Len(sp), Len(nz)) |->
           [speaker |-> sp[i].speaker, clip |-> sp[i].name, noise |-> nz[i]]]
        : sp \in speech, nz \in noise }

\* ------------------------------------------------------- data_processor
\* preprocess_audio_pair: the mixed-audio feature and the speech mask of one
\* (speech, noise) pair.
MixedAudio(s) ==
  [clip |-> s.clip, noise |-> s.noise,
   val |-> SpeechLevel(s.clip) + NoiseLevel(s.noise), napplied |-> 0]

SpeechMask(s) ==
  [clip |-> s.clip, noise |-> s.noise, val |-> SpeechLevel(s.clip)]

\* preprocess_video_sample: the video feature of one clip.
VideoFeature(s) ==
  [clip |-> s.clip, val |-> 2 * SpeechLevel(s.clip), napplied |-> 0]

\* The samples of a batch that a batch function keeps when the files at the
\* indices in bad are skipped.
RECURSIVE Keep(_, _, _)
Keep(samples, bad, i) ==
  IF i > Len(samples) THEN <<>>
  ELSE (IF i \in bad THEN <<>> ELSE <<samples[i]>>) \o Keep(samples, bad, i + 1)

SetMin(S) == IF S = {} THEN 0 ELSE CHOOSE m \in S : \A x \in S : m <= x

\* Normalizer fit: the per-modality shift over the whole batch.
Fit(mixed, video) ==
  [audio |-> SetMin({mixed[i].val : i \in 1..Len(mixed)}),
   video |-> SetMin({video[i].val : i \in 1..Len(video)})]

\* Normalizer apply, on one feature.
ApplyTo(x, shift) == [x EXCEPT !.val = @ - shift, !.napplied = @ + 1]

\* --------------------------------------------- load_preprocessed_samples
\* Fancy indexing array[permutation]: IndexError (ok = FALSE) when an index
\* lies outside the array.
Permute(array, permutation) ==
  IF \A i \in 1..Len(permutation) : permutation[i] \in 1..Len(array)
  THEN [ok |-> TRUE, val |-> [i \in 1..Len(permutation) |-> array[permutation[i]]]]
  ELSE [ok |-> FALSE, val |-> <<>>]

\* The slice array[:max_samples] for max_samples None or a natural number.
Slice(array, max_samples) ==
  IF max_samples = None THEN array
  ELSE SubSeq(array, 1, Min(max_samples[1], Len(array)))

PermutationsOf(n) == InjSeqs(1..n, n)

\* load_preprocessed_samples(blob, max_samples) under the permutation drawn
\* by np.random.permutation(video_samples.shape[0]).
load_preprocessed_samples(blob, permutation, max_samples) ==
  LET m == Permute(blob.mixed_audio_samples, permutation)
      k == Permute(blob.speech_mask_audio_samples, permutation)
      v == Permute(blob.video_samples, permutation)
  IN  IF m.ok /\ k.ok /\ v.ok
      THEN [ok |-> TRUE,
            mixed_audio_samples |-> Slice(m.val, max_samples),
            speech_mask_audio_samples |-> Slice(k.val, max_samples),
            video_samples |-> Slice(v.val, max_samples)]
      ELSE [ok |-> FALSE, mixed_audio_samples |-> <<>>,
            speech_mask_audio_samples |-> <<>>, video_samples |-> <<>>]

\* -------------------------------------------------------- the estimator
\* SpeechEnhancementNet.build(video_shape, audio_shape): the architecture
\* descriptor holds the two per-sample feature shapes.
Architecture == [video_shape |-> "video", audio_shape |-> "audio"]

\* The weights after network.train on a batch.  trained_with is a history
\* field: the statistics fitted by the preprocess run that produced the batch.
Weights(batch, fit) == [trained_with |-> fit]

\* The steps of the try body of predict, in order; a sample's processing
\* fails at one of them or at none (0).
TrySteps ==
  << "preprocess_audio_pair", "preprocess_video_sample", "apply_normalization",
     "network.predict", "reconstruct_speech_signal", "os.mkdir",
     "save enhanced.wav", "save mixture.wav", "shutil.copy" >>

StepNo(name) == CHOOSE i \in 1..Len(TrySteps) : TrySteps[i] = name

\* Whether the try body, failing at step failed_at, has completed step name.
Passed(failed_at, name) == failed_at = 0 \/ failed_at > StepNo(name)

\* Whether it has started step name.
Entered(failed_at, name) == failed_at = 0 \/ failed_at >= StepNo(name)

\* ------------------------------------------------------------- the state
VARIABLES
  now,                        \* datetime.now(), in whole seconds
  runs,                       \* commands started so far
  cmd, pc,                    \* the running command and its position
  args,                       \* the speaker arguments of the running command
  result,                     \* how the last command ended
  normalization_cache,        \* file args.normalization_cache
  preprocessed_blob,          \* file args.preprocessed_blob_path
  blob_fit,                   \* history: the statistics fitted by the run that wrote the blob
  model_cache, weights_cache, \* files args.model_cache, args.weights_cache
  run_dirs,                   \* the timestamp directories of args.prediction_output_dir
  speaker_dirs, sample_dirs, out_files,  \* the tree below the running predict's own directory
  prediction_output_dir,      \* local of predict
  speaker_ids, spk,           \* list_speakers(args) and the for-loop position in it
  samples, idx,               \* list_data(...) and the for-loop position in it
  normalization_data,         \* local of predict
  network,                    \* local of predict
  handed,                     \* history: the batches handed to the estimator in this run
  apply_args,                 \* history: the statistics passed to apply_normalization in this run
  listed, reported, enhanced  \* history of predict: samples listed, reported failed, completed

files == <<normalization_cache, preprocessed_blob, blob_fit, model_cache, weights_cache>>
tree == <<speaker_dirs, sample_dirs, out_files>>
locals == <<prediction_output_dir, speaker_ids, spk, samples, idx, normalization_data,
            network>>
history == <<handed, apply_args, listed, reported, enhanced>>
vars == <<now, runs, cmd, pc, args, result, files, run_dirs, tree, locals, history>>

NoArgs == [speakers |-> None, ignored_speakers |-> None]

At(c, p) == cmd = c /\ pc = p

Init ==
  /\ now = 0
  /\ runs = 0
  /\ cmd = "idle"
  /\ pc = ""
  /\ args = NoArgs
  /\ result = [cmd |-> "", outcome |-> ""]
  /\ normalization_cache = None
  /\ preprocessed_blob = None
  /\ blob_fit = None
  /\ model_cache = None
  /\ weights_cache = None
  /\ run_dirs = {}
  /\ speaker_dirs = {}
  /\ sample_dirs = {}
  /\ out_files = {}
  /\ prediction_output_dir = None
  /\ speaker_ids = <<>>
  /\ spk = 1
  /\ samples = <<>>
  /\ idx = 1
  /\ normalization_data = None
  /\ network = None
  /\ handed = {}
  /\ apply_args = {}
  /\ listed = {}
  /\ reported = {}
  /\ enhanced = {}

\* The clock advances between commands.
Tick ==
  /\ cmd = "idle"
  /\ now < MaxClock
  /\ now' = now + 1
  /\ UNCHANGED <<runs, cmd, pc, args, result, files, run_dirs, tree, locals, history>>

\* main(): a command line is parsed and dispatched to args.func.
Started ==
  /\ cmd = "idle"
  /\ runs < MaxRuns
  /\ runs' = runs + 1

\* A command ends, normally or with an uncaught exception, and its process
\* exits: its arguments and locals are gone, and so is, for the model, the
\* tree below its own output directory, which no later command can name
\* without first creating that directory anew.
Ended(c, outcome) ==
  /\ cmd' = "idle"
  /\ pc' = ""
  /\ args' = NoArgs
  /\ result' = [cmd |-> c, outcome |-> outcome]
  /\ prediction_output_dir' = None
  /\ speaker_ids' = <<>>
  /\ spk' = 1
  /\ samples' = <<>>
  /\ idx' = 1
  /\ normalization_data' = None
  /\ network' = None
  /\ speaker_dirs' = {}
  /\ sample_dirs' = {}
  /\ out_files' = {}
  /\ apply_args' = {}
  /\ listed' = {}
  /\ reported' = {}
  /\ enhanced' = {}

\* ------------------------------------------------------------ preprocess
\* data_processor.preprocess_audio_data / preprocess_video_data: the features
\* of the files of a batch, those at the indices in bad skipped.
preprocess_audio_data(paths, bad) ==
  LET kept == Keep(paths, bad, 1)
  IN  [mixed_audio_samples |-> [i \in 1..Len(kept) |-> MixedAudio(kept[i])],
       speech_mask_audio_samples |-> [i \in 1..Len(kept) |-> SpeechMask(kept[i])]]

preprocess_video_data(paths, bad) ==
  LET kept == Keep(paths, bad, 1)
  IN  [i \in 1..Len(kept) |-> VideoFeature(kept[i])]

\* A preprocess that fits the statistics before the video features exist.
PreprocessWritesFitEarly(l, bad_audio, bad_video) ==
  LET audio == preprocess_audio_data(l, bad_audio)
      normalization_data_ == Fit(audio.mixed_audio_samples, <<>>)
      video_samples_ == preprocess_video_data(l, bad_video)
  IN  /\ normalization_cache' = Some(normalization_data_)
      /\ preprocessed_blob' =
           Some([mixed_audio_samples |-> audio.mixed_audio_samples,
                 speech_mask_audio_samples |-> audio.speech_mask_audio_samples,
                 video_samples |-> video_samples_])
      /\ blob_fit' = Some(normalization_data_)

\* The files preprocess leaves for the listed samples l, when the audio batch
\* skips the files at bad_audio and the video batch those at bad_video.
PreprocessWrites(l, bad_audio, bad_video) ==
  LET audio == preprocess_audio_data(l, bad_audio)
      video_samples_ == preprocess_video_data(l, bad_video)
      normalization_data_ == Fit(audio.mixed_audio_samples, video_samples_)
  IN  /\ normalization_cache' = Some(normalization_data_)
      /\ preprocessed_blob' =
           Some([mixed_audio_samples |-> audio.mixed_audio_samples,
                 speech_mask_audio_samples |-> audio.speech_mask_audio_samples,
                 video_samples |-> video_samples_])
      /\ blob_fit' = Some(normalization_data_)

\* preprocess(args).  A file that cannot be read is skipped by its batch
\* function, or its error leaves the batch function and ends the command.
preprocess ==
  /\ Started
  /\ \E sp \in SpeakerArgs, ig \in IgnoredArgs :
       LET r == list_speakers([speakers |-> sp, ignored_speakers |-> ig])
       IN  IF ~r.ok
           THEN /\ Ended("preprocess", "ValueError")
                /\ UNCHANGED files
           ELSE \E l \in list_data(r.val, None) :
                  LET flaky == {i \in 1..Len(l) : l[i].clip \in Unreadable}
                  IN  \/ /\ \E bad_audio \in SUBSET flaky, bad_video \in SUBSET flaky :
                              PreprocessWrites(l, bad_audio, bad_video)
                         /\ Ended("preprocess", "done")
                         /\ UNCHANGED <<model_cache, weights_cache>>
                      \/ /\ flaky # {}
                         /\ Ended("preprocess", "InputDataError")
                         /\ UNCHANGED files
  /\ handed' = {}
  /\ UNCHANGED <<now, run_dirs>>

\* ----------------------------------------------------------------- train
\* What the estimator is handed: who hands it, how many times the normalizer
\* has been applied to each feature of the batch, the statistics applied and
\* the statistics the estimator's weights were trained with.
Handed(by, mixed, video, statistics, trained_with) ==
  [by |-> by,
   napplied |-> {mixed[i].napplied : i \in 1..Len(mixed)}
                  \cup {video[i].napplied : i \in 1..Len(video)},
   normalization_data |-> statistics,
   trained_with |-> trained_with]

\* A train that dumps the network whether or not network.train returned.
TrainOnDumpAlways(batch) ==
  \E outcome \in {"done", "TrainingDivergedError"} :
    /\ handed' = {Handed("train", batch.mixed_audio_samples, batch.video_samples,
                         None, blob_fit)}
    /\ model_cache' = Some(Architecture)
    /\ weights_cache' = Some(Weights(batch, blob_fit))
    /\ Ended("train", outcome)

\* The rest of train(args) once the samples are loaded: build, train, dump.
TrainOn(batch) ==
  \E outcome \in {"done", "TrainingDivergedError"} :
    /\ handed' = {Handed("train", batch.mixed_audio_samples, batch.video_samples,
                         None, blob_fit)}
    /\ IF outcome = "done"
       THEN /\ model_cache' = Some(Architecture)
            /\ weights_cache' = Some(Weights(batch, blob_fit))
       ELSE UNCHANGED <<model_cache, weights_cache>>
    /\ Ended("train", outcome)

train ==
  /\ Started
  /\ IF preprocessed_blob = None
     THEN /\ Ended("train", "PersistenceError")
          /\ handed' = {}
          /\ UNCHANGED <<model_cache, weights_cache>>
     ELSE \E permutation \in PermutationsOf(Len(preprocessed_blob[1].video_samples)) :
            LET batch == load_preprocessed_samples(preprocessed_blob[1], permutation, None)
            IN  IF batch.ok
                THEN TrainOn(batch)
                ELSE /\ Ended("train", "IndexError")
                     /\ handed' = {}
                     /\ UNCHANGED <<model_cache, weights_cache>>
  /\ UNCHANGED <<now, normalization_cache, preprocessed_blob, blob_fit, run_dirs>>

\* --------------------------------------------------------------- predict
\* predict(args) up to its loop: the output directory named by the second of
\* the clock, the network, the normalization data, the speaker list.
predict ==
  /\ Started
  /\ handed' = {}
  /\ \E sp \in SpeakerArgs, ig \in IgnoredArgs :
       LET a == [speakers |-> sp, ignored_speakers |-> ig]
           r == list_speakers(a)
       IN  IF now \in run_dirs
           THEN /\ Ended("predict", "FileExistsError")
                /\ UNCHANGED run_dirs
           ELSE /\ run_dirs' = run_dirs \cup {now}
                /\ IF model_cache = None \/ weights_cache = None
                      \/ normalization_cache = None
                   THEN Ended("predict", "PersistenceError")
                   ELSE IF ~r.ok
                   THEN Ended("predict", "ValueError")
                   ELSE /\ cmd' = "predict"
                        /\ pc' = IF r.val = <<>> THEN "return" ELSE "speaker"
                        /\ args' = a
                        /\ result' = [cmd |-> "predict", outcome |-> "running"]
                        /\ prediction_output_dir' = Some(now)
                        /\ network' = Some([architecture |-> model_cache[1],
                                            weights |-> weights_cache[1]])
                        /\ normalization_data' = normalization_cache
                        /\ speaker_ids' = r.val
                        /\ spk' = 1
                        /\ samples' = <<>>
                        /\ idx' = 1
                        /\ speaker_dirs' = {}
                        /\ sample_dirs' = {}
                        /\ out_files' = {}
                        /\ apply_args' = {}
                        /\ listed' = {}
                        /\ reported' = {}
                        /\ enhanced' = {}
  /\ UNCHANGED <<now, files>>

\* The for loops move on: to the next sample of the speaker, to the next
\* speaker when its samples are exhausted, to the end of predict after the
\* last speaker.
NextSample(l, i) ==
  IF i <= Len(l)
  THEN /\ pc' = "sample"
       /\ idx' = i
       /\ spk' = spk
  ELSE /\ pc' = IF spk + 1 <= Len(speaker_ids) THEN "speaker" ELSE "return"
       /\ idx' = 1
       /\ spk' = spk + 1

\* Lines 70-75: the speaker's directory and the speaker's files.
PredictSpeaker ==
  /\ At("predict", "speaker")
  /\ LET speaker_id == speaker_ids[spk]
     IN  IF speaker_id \in speaker_dirs
         THEN /\ Ended("predict", "FileExistsError")
              /\ handed' = {}
         ELSE /\ speaker_dirs' = speaker_dirs \cup {speaker_id}
              /\ \E l \in list_data(<<speaker_id>>, Some(MaxFiles)) :
                   /\ samples' = l
                   /\ listed' = listed \cup Range(l)
                   /\ NextSample(l, 1)
              /\ UNCHANGED <<cmd, args, result, prediction_output_dir, speaker_ids,
                             normalization_data, network, sample_dirs, out_files,
                             handed, apply_args, reported, enhanced>>
  /\ UNCHANGED <<now, runs, files, run_dirs>>

\* The directory of a sample below the speaker's directory.
SampleDir(s) == [speaker |-> s.speaker, name |-> s.clip \o "_" \o s.noise]

\* The files the try body has written into dir when it fails at failed_at.
Written(s, dir, failed_at) ==
  {[dir |-> dir, file |-> "enhanced.wav"] : x \in {1} \cap
       (IF Passed(failed_at, "save enhanced.wav") THEN {1} ELSE {})}
  \cup {[dir |-> dir, file |-> "mixture.wav"] : x \in {1} \cap
       (IF Passed(failed_at, "save mixture.wav") THEN {1} ELSE {})}
  \cup {[dir |-> dir, file |-> s.clip \o ".mp4"] : x \in {1} \cap
       (IF Passed(failed_at, "shutil.copy") THEN {1} ELSE {})}

\* A predict that hands apply_normalization statistics refitted on the
\* sample itself.
ApplyArgumentRefit ==
  Some(Fit(<<MixedAudio(samples[idx])>>, <<VideoFeature(samples[idx])>>))

\* Line 84: the statistics handed to apply_normalization.
ApplyArgument == normalization_data

\* The try body of lines 78-99 on sample s, failing at step failed_at or at
\* none (0): what it leaves in the output tree and in the history.
TryBody(s, failed_at) ==
  LET dir == SampleDir(s)
      statistics == ApplyArgument
      mixed == <<ApplyTo(MixedAudio(s), statistics[1].audio)>>
      video == <<ApplyTo(VideoFeature(s), statistics[1].video)>>
  IN  /\ apply_args' = IF Entered(failed_at, "apply_normalization")
                       THEN apply_args \cup {statistics}
                       ELSE apply_args
      /\ handed' = IF Entered(failed_at, "network.predict")
                   THEN handed \cup {Handed("predict", mixed, video, statistics,
                                            network[1].weights.trained_with)}
                   ELSE handed
      /\ sample_dirs' = IF Passed(failed_at, "os.mkdir")
                        THEN sample_dirs \cup {dir}
                        ELSE sample_dirs
      /\ out_files' = out_files \cup Written(s, dir, failed_at)
      /\ enhanced' = IF failed_at = 0 THEN enhanced \cup {s} ELSE enhanced

\* The failures a sample's try body can meet: any step may raise, and
\* os.mkdir raises FileExistsError when the sample's directory exists.
Failures(s) ==
  {f \in 0..Len(TrySteps) : SampleDir(s) \in sample_dirs => ~Passed(f, "os.mkdir")}

\* A predict without the except clause: the error of a sample leaves predict.
PredictSampleUncaught ==
  /\ At("predict", "sample")
  /\ \E failed_at \in Failures(samples[idx]) :
       IF failed_at = 0
       THEN /\ TryBody(samples[idx], failed_at)
            /\ NextSample(samples, idx + 1)
            /\ UNCHANGED <<cmd, args, result, prediction_output_dir, speaker_ids,
                           samples, normalization_data, network, speaker_dirs, listed,
                           reported>>
       ELSE /\ Ended("predict", "Exception")
            /\ handed' = {}
  /\ UNCHANGED <<now, runs, files, run_dirs>>

\* Lines 77-101: one sample in the try body; its error is caught by the
\* except clause of line 100, which prints the sample's video file path.
PredictSample ==
  /\ At("predict", "sample")
  /\ \E failed_at \in Failures(samples[idx]) :
       /\ TryBody(samples[idx], failed_at)
       /\ reported' = IF failed_at # 0
                      THEN reported \cup {[speaker |-> samples[idx].speaker,
                                           clip |-> samples[idx].clip]}
                      ELSE reported
  /\ NextSample(samples, idx + 1)
  /\ UNCHANGED <<now, runs, cmd, args, result, files, run_dirs, prediction_output_dir,
                 speaker_ids, samples, normalization_data, network, speaker_dirs, listed>>

\* predict returns and the process exits.
PredictReturn ==
  /\ At("predict", "return")
  /\ Ended("predict", "done")
  /\ handed' = {}
  /\ UNCHANGED <<now, runs, files, run_dirs>>

Next ==
  \/ Tick
  \/ preprocess
  \/ train
  \/ predict
  \/ PredictSpeaker
  \/ PredictSample
  \/ PredictReturn

Spec == Init /\ [][Next]_vars

\* -------------------------------------------- list_speakers on its own
MaxListLen == 2

SpeakerNames == {"s1", "s2", "s3"}

\* The values of --speakers and of --ignored_speakers (nargs="+"): absent, or
\* a non-empty list of speaker ids.
ListArgs ==
  {None} \cup {Some(l) : l \in UNION {[1..n -> SpeakerNames] : n \in 1..MaxListLen}}

InitListSpeakers ==
  /\ now = 0
  /\ runs = 0
  /\ cmd = "list_speakers"
  /\ pc = "call"
  /\ args \in [speakers : ListArgs, ignored_speakers : ListArgs]
  /\ result = [cmd |-> "list_speakers", outcome |-> "running"]
  /\ normalization_cache = None
  /\ preprocessed_blob = None
  /\ blob_fit = None
  /\ model_cache = None
  /\ weights_cache = None
  /\ run_dirs = {}
  /\ speaker_dirs = {}
  /\ sample_dirs = {}
  /\ out_files = {}
  /\ prediction_output_dir = None
  /\ speaker_ids = <<>>
  /\ spk = 1
  /\ samples = <<>>
  /\ idx = 1
  /\ normalization_data = None
  /\ network = None
  /\ handed = {}
  /\ apply_args = {}
  /\ listed = {}
  /\ reported = {}
  /\ enhanced = {}

\* speaker_ids = list_speakers(args)
ListSpeakersCall ==
  /\ At("list_speakers", "call")
  /\ LET r == list_speakers(args)
     IN  /\ speaker_ids' = r.val
         /\ result' = [cmd |-> "list_speakers",
                       outcome |-> IF r.ok THEN "done" ELSE "ValueError"]
  /\ pc' = "returned"
  /\ UNCHANGED <<now, runs, cmd, args, files, run_dirs, tree, prediction_output_dir,
                 spk, samples, idx, normalization_data, network, history>>

SpecListSpeakers == InitListSpeakers /\ [][ListSpeakersCall]_vars

\* ================================================================ claims
Reported(s) == [speaker |-> s.speaker, clip |-> s.clip] \in reported

Attempted(s) == s \in enhanced \/ Reported(s)

\* The samples of the running predict whose turn in the loops is over.
Iterated ==
  IF pc = "sample" THEN listed \ {samples[i] : i \in idx..Len(samples)} ELSE listed

\* C1: in predict, the error of any step of one sample is caught at that
\* sample's boundary and reported naming the sample, and the loops go on: a
\* failing sample never ends the command, every sample whose turn is over was
\* completed or reported, and when predict returns every listed sample of
\* every speaker was completed or reported.
C1_BadSampleNeverAborts ==
  /\ [][At("predict", "sample") =>
          /\ cmd' = "predict"
          /\ result' = result
          /\ (samples[idx] \in enhanced' \/ [speaker |-> samples[idx].speaker,
                                            clip |-> samples[idx].clip] \in reported')
          /\ (pc' = "sample" => idx' = idx + 1)]_vars
  /\ [](cmd = "predict" => \A s \in Iterated : Attempted(s))
  /\ [](At("predict", "return") =>
          /\ Range(speaker_ids) \subseteq speaker_dirs
          /\ \A s \in listed : Attempted(s))

\* A sample of the first speaker failed and was reported, a later sample of
\* the same speaker and the sample of the next speaker were completed.
C1_Witness ==
  /\ At("predict", "return")
  /\ speaker_ids = <<"s1", "s2">>
  /\ \E r \in reported : r.speaker = "s1"
  /\ \E e \in enhanced : e.speaker = "s1"
  /\ \E e \in enhanced : e.speaker = "s2"

\* C2: the statistics predict applies to a sample are the statistics fitted
\* with the training samples of the loaded model.
C2_StatisticsMatchModel ==
  \A h \in handed : h.by = "predict" => h.normalization_data = h.trained_with

\* C3: every feature batch handed to the estimator, by train as by predict,
\* has had the normalizer applied to it exactly once.
C3_AppliedExactlyOnce ==
  \A h \in handed : h.napplied \subseteq {1}

\* A step of the train command.
TrainStep == cmd = "idle" /\ runs' = runs + 1 /\ result'.cmd = "train"

\* C4: a train that fails persists no model artifact; the architecture
\* descriptor and the weights are written only by a train that returned
\* normally, which writes both.
C4_NoPartialModel ==
  /\ [][(model_cache' # model_cache \/ weights_cache' # weights_cache) =>
          (TrainStep /\ result'.outcome = "done")]_vars
  /\ [][(TrainStep /\ result'.outcome = "done") =>
          /\ model_cache' = Some(Architecture)
          /\ weights_cache' = Some([trained_with |-> blob_fit])]_vars
  /\ []((model_cache = None) <=> (weights_cache = None))

\* A train has diverged and no model artifact exists.
C4_Witness ==
  /\ result = [cmd |-> "train", outcome |-> "TrainingDivergedError"]
  /\ preprocessed_blob # None
  /\ model_cache = None
  /\ weights_cache = None

\* C5: the three arrays of the blob have the same sample count, and index i of
\* all three belongs to the same (speech, noise, video) sample.
C5_ParallelArrays ==
  preprocessed_blob # None =>
    LET b == preprocessed_blob[1]
    IN  /\ Len(b.mixed_audio_samples) = Len(b.video_samples)
        /\ Len(b.speech_mask_audio_samples) = Len(b.video_samples)
        /\ \A i \in 1..Len(b.video_samples) :
             /\ b.mixed_audio_samples[i].clip = b.video_samples[i].clip
             /\ b.speech_mask_audio_samples[i].clip = b.video_samples[i].clip
             /\ b.speech_mask_audio_samples[i].noise = b.mixed_audio_samples[i].noise

MaxSamplesArg == 3

MaxSamplesArgs == {None} \cup {Some(k) : k \in 0..MaxSamplesArg}

\* The blob's sample count.
BlobCount(b) == Len(b.video_samples)

\* C6: load_preprocessed_samples returns the blob's samples under one
\* permutation, truncated to max_samples: each returned triple is the triple
\* at one index of the blob, no index is returned twice, and min(max_samples,
\* N) triples are returned, N when max_samples is None.
C6_PermutedAndTruncated ==
  preprocessed_blob # None =>
    LET b == preprocessed_blob[1]
        N == BlobCount(b)
    IN  \A permutation \in PermutationsOf(N), max_samples \in MaxSamplesArgs :
          LET r == load_preprocessed_samples(b, permutation, max_samples)
              n == IF max_samples = None THEN N ELSE Min(max_samples[1], N)
          IN  /\ r.ok
              /\ Len(r.mixed_audio_samples) = n
              /\ Len(r.speech_mask_audio_samples) = n
              /\ Len(r.video_samples) = n
              /\ \E j \in [1..n -> 1..N] :
                   /\ \A i1, i2 \in 1..n : i1 # i2 => j[i1] # j[i2]
                   /\ \A i \in 1..n :
                        /\ r.mixed_audio_samples[i] = b.mixed_audio_samples[j[i]]
                        /\ r.speech_mask_audio_samples[i] = b.speech_mask_audio_samples[j[i]]
                        /\ r.video_samples[i] = b.video_samples[j[i]]

\* C7: every combination predict has completed has a directory of its own
\* holding enhanced.wav, mixture.wav and the copy of its video, and no sample
\* directory of the run's tree holds only some of the three.
C7_CompleteDirectories ==
  cmd = "predict" =>
    /\ \A s \in enhanced : SampleDir(s) \in sample_dirs
    /\ \A s, t \in enhanced : s # t => SampleDir(s) # SampleDir(t)
    /\ \A d \in sample_dirs : Cardinality({f \in out_files : f.dir = d}) = 3

\* C8: the normalization cache is written by preprocess alone, and within a
\* predict run every apply_normalization is handed the statistics value that
\* was loaded before the first sample, which the run never changes.
C8_StatisticsImmutable ==
  /\ [][normalization_cache' # normalization_cache =>
          (cmd = "idle" /\ result'.cmd = "preprocess")]_vars
  /\ [][(cmd = "predict" /\ cmd' = "predict") =>
          normalization_data' = normalization_data]_vars
  /\ [](cmd = "predict" => apply_args \subseteq {normalization_data})

\* Two samples of one predict run have been normalized.
C8_Witness ==
  /\ cmd = "predict"
  /\ apply_args # {}
  /\ Cardinality(enhanced) >= 2

\* C9: the statistics preprocess persists are fitted over the audio and
\* video features of all the samples of its run, and predict holds the loaded
\* statistics before its first apply and hands them to every apply.
C9_FitBeforeApply ==
  /\ preprocessed_blob # None =>
       normalization_cache =
         Some(Fit(preprocessed_blob[1].mixed_audio_samples,
                  preprocessed_blob[1].video_samples))
  /\ cmd = "predict" =>
       /\ normalization_data # None
       /\ normalization_data = normalization_cache
       /\ \A a \in apply_args : a # None /\ a = normalization_data
       /\ \A h \in handed : h.normalization_data = normalization_data

\* A predict run has applied statistics fitted over a corpus of two samples.
C9_Witness ==
  /\ cmd = "predict"
  /\ apply_args # {}
  /\ preprocessed_blob # None
  /\ Len(preprocessed_blob[1].video_samples) = 2
  /\ Len(preprocessed_blob[1].mixed_audio_samples) = 2

\* The speaker list given: --speakers, or the dataset's speakers.
GivenSpeakers == IF args.speakers = None THEN DatasetSpeakers ELSE args.speakers[1]

IgnoredSpeakers ==
  IF args.ignored_speakers = None THEN {} ELSE Range(args.ignored_speakers[1])

\* C10 as stated: list_speakers returns the given speaker list without the
\* ignored speaker ids, every other id kept, in the original order.
C10_IgnoredRemoved ==
  At("list_speakers", "returned") =>
    /\ result.outcome = "done"
    /\ speaker_ids = SelectSeq(GivenSpeakers, LAMBDA x : x \notin IgnoredSpeakers)

NoDuplicates(l) == \A i, j \in 1..Len(l) : i # j => l[i] # l[j]

\* C10 as amended: when neither list holds an id twice and every ignored id
\* is in the speaker list, list_speakers returns the speaker list without the
\* ignored ids, every other id kept, in the original order; when an ignored
\* id is not in the speaker list, list_speakers raises ValueError.
C10_IgnoredRemovedWhenPresent ==
  At("list_speakers", "returned") =>
    /\ (/\ NoDuplicates(GivenSpeakers)
        /\ args.ignored_speakers # None => NoDuplicates(args.ignored_speakers[1])
        /\ IgnoredSpeakers \subseteq Range(GivenSpeakers))
       => /\ result.outcome = "done"
          /\ speaker_ids = SelectSeq(GivenSpeakers, LAMBDA x : x \notin IgnoredSpeakers)
    /\ ~(IgnoredSpeakers \subseteq Range(GivenSpeakers)) => result.outcome = "ValueError"

\* list_speakers has removed one of two given speakers and kept the other.
C10_Witness ==
  /\ At("list_speakers", "returned")
  /\ result.outcome = "done"
  /\ args.speakers = Some(<<"s1", "s2">>)
  /\ args.ignored_speakers = Some(<<"s1">>)
  /\ speaker_ids = <<"s2">>

====
